---- MODULE Spec2Model ----
(***************************************************************************)
(* Quote -> purchase-order conversion of the Roselar sales application     *)
(* (config/sales/views.py, quote_convert_to_orders) over the tables of     *)
(* config/sales/models.py.                                                 *)
(*                                                                         *)
(* The database is modelled as a READ COMMITTED store: a statement reads   *)
(* the committed rows plus the rows its own transaction wrote; the writes  *)
(* of a transaction.atomic() block are kept in tx[r] and reach the tables  *)
(* at commit, or are dropped when an exception leaves the block.  The      *)
(* file storage behind QuoteItemImage.image is not transactional.          *)
(*                                                                         *)
(* Each request r runs the view once.  Its statements are separate steps   *)
(* wherever another request can observe or influence them.                 *)
(***************************************************************************)
EXTENDS Integers, Sequences, FiniteSets, TLC

\* ------------------------------------------------------------- bounds
MaxItems == 3        \* QuoteItem rows of the quote
MaxImages == 1       \* QuoteItemImage rows staged for the quote
NumRequests == 2     \* conversion requests (POST .../convert/) in flight

QuoteIds == {1}
ItemIds == 1..MaxItems
Requests == 1..NumRequests
Suppliers == {"A", "B"}
NoSupplier == "None"             \* supplier_id IS NULL
NoUser == "None"                 \* discount_authorized_by IS NULL
InitialStatuses == {"DRAFT", "APPROVED", "CANCELED"}

VARIABLES
    dbQuote,            \* Quote table: quote id -> row
    dbQuoteItem,        \* QuoteItem table: set of rows
    dbQuoteItemImage,   \* QuoteItemImage table: set of rows
    storage,            \* files present in the media storage
    dbOrder,            \* Order table: set of committed rows
    dbOrderItem,        \* OrderItem table: set of committed rows
    pc,                 \* position of each request in the view
    local,              \* the view's local variables, per request
    tx,                 \* uncommitted writes of the request's atomic block
    response,           \* what the request reported to the user
    dbPaymentTariff,    \* PaymentTariff table (core): set of rows
    dbArchitectCommission, \* ArchitectCommission table (core): set of rows
    dbCustomer,         \* Customer table (core): set of rows
    call                \* a call of a model method or validator: what it was
                        \* given and what it returned

\* the state of the core application, which no view of sales writes
coreVars == <<dbPaymentTariff, dbArchitectCommission, dbCustomer, call>>

vars == <<dbQuote, dbQuoteItem, dbQuoteItemImage, storage, dbOrder, dbOrderItem,
          pc, local, tx, response, coreVars>>

db == <<dbQuote, dbQuoteItem, dbQuoteItemImage, dbOrder, dbOrderItem>>

\* the tables the conversion writes
tables == <<dbQuote, dbQuoteItemImage, dbOrder, dbOrderItem>>

\* ------------------------------------------------------------- rows
\* QuoteStatus.CONVERTED
CONVERTED == "CONVERTED"
\* QuoteStatus.CANCELED
CANCELED == "CANCELED"
\* OrderStatus.OPEN
OPEN == "OPEN"

QuoteRow(q, st) ==
    [id |-> q, number |-> q, status |-> st, freight_value |-> 0,
     discount_percent |-> 0, discount_authorized_by |-> NoUser,
     payment_fee_percent |-> 0, total_value_snapshot |-> 0]

EmptyTx == [orders |-> {}, orderItems |-> {}, quoteUpdates |-> <<>>, deletedImages |-> {}]

NoLocal == [quote_id |-> 0, quote |-> QuoteRow(0, "DRAFT"), items |-> <<>>,
            groups |-> <<>>, created_orders |-> <<>>]

NoResponse == [kind |-> "none", error |-> "none", quote_id |-> 0, count |-> 0, pdf_count |-> 0]

NoCall == [op |-> "none"]

\* quote.items.all(): the QuoteItem rows of quote q, in primary-key order
ItemList(table, q) ==
    LET ids == SelectSeq([i \in 1..MaxItems |-> i],
                         LAMBDA i : \E it \in table : it.id = i /\ it.quote = q)
    IN  [k \in 1..Len(ids) |-> CHOOSE it \in table : it.id = ids[k] /\ it.quote = q]

\* quote.orders.exists(): read inside the atomic block, sees committed rows
OrdersExist(q) == \E o \in dbOrder : o.quote = q

\* ------------------------------------------------------------- the view's pure steps
\* the checks without the existing-Orders check
PreconditionErrorWithoutOrdersCheck(hasOrders, quote, items) ==
    IF quote.status = "CANCELED" THEN "QuoteCanceled"
    ELSE IF items = <<>> THEN "EmptyQuote"
    ELSE IF \E k \in 1..Len(items) : items[k].supplier = NoSupplier THEN "MissingSupplier"
    ELSE "none"

\* the supplier check looking at the first item only
PreconditionErrorFirstItemOnly(hasOrders, quote, items) ==
    IF hasOrders THEN "AlreadyConverted"
    ELSE IF quote.status = "CANCELED" THEN "QuoteCanceled"
    ELSE IF items = <<>> THEN "EmptyQuote"
    ELSE IF items[1].supplier = NoSupplier THEN "MissingSupplier"
    ELSE "none"

\* the item checks made before the status check
PreconditionErrorItemsFirst(hasOrders, quote, items) ==
    IF hasOrders THEN "AlreadyConverted"
    ELSE IF items = <<>> THEN "EmptyQuote"
    ELSE IF \E k \in 1..Len(items) : items[k].supplier = NoSupplier THEN "MissingSupplier"
    ELSE IF quote.status = "CANCELED" THEN "QuoteCanceled"
    ELSE "none"

\* views.py 374-390: the precondition checks, in the order the view makes them.
\* hasOrders is the fresh quote.orders.exists() query; quote and items are the
\* objects the view holds.
PreconditionError(hasOrders, quote, items) ==
    IF hasOrders THEN "AlreadyConverted"
    ELSE IF quote.status = CANCELED THEN "QuoteCanceled"
    ELSE IF items = <<>> THEN "EmptyQuote"
    ELSE IF \E k \in 1..Len(items) : items[k].supplier = NoSupplier THEN "MissingSupplier"
    ELSE "none"

\* one group per item instead of one per supplier
GroupKeysPerItem(items) == [k \in 1..Len(items) |-> items[k].supplier]

\* views.py 393-395: the keys of by_supplier in insertion order (a dict keeps the
\* order in which each supplier_id first appears)
RECURSIVE GroupKeys(_)
GroupKeys(items) ==
    IF items = <<>> THEN <<>>
    ELSE LET rest == GroupKeys(SubSeq(items, 1, Len(items) - 1))
             s == items[Len(items)].supplier
         IN  IF \E k \in 1..Len(rest) : rest[k] = s THEN rest ELSE Append(rest, s)

\* every item put in every supplier's group
SupplierItemsAll(items, supplier_id) == items

\* views.py 394-395: by_supplier[supplier_id], the items of one supplier in item order
SupplierItems(items, supplier_id) ==
    SelectSeq(items, LAMBDA it : it.supplier = supplier_id)

\* views.py 401-407: the per-supplier Order row
SupplierOrder(r, quote, supplier_id, n) ==
    [id |-> <<r, n>>, number |-> quote.number, quote |-> quote.id,
     supplier |-> supplier_id, is_total_conference |-> FALSE, status |-> OPEN]

\* views.py 423-429: the total-conference Order row
TotalOrder(r, quote) ==
    [id |-> <<r, 0>>, number |-> quote.number, quote |-> quote.id,
     supplier |-> NoSupplier, is_total_conference |-> TRUE, status |-> OPEN]

\* the values of a QuoteItem that an OrderItem copies (product_name,
\* description, quantity, unit_value), as one value: as first written, or edited
FirstValue == 1
EditedValue == 2
\* OrderItem.quote_item after SET_NULL (models.py 314-320)
NoItem == 0

\* views.py 410-420 and 431-441: bulk_create of one OrderItem per item of the
\* list, with the item's values and a reference to it
OrderItemRows(order, its) ==
    {[order |-> order.id, pos |-> k, quote_item |-> its[k].id, value |-> its[k].value] :
        k \in 1..Len(its)}

\* the table without the unique constraint
NoUniqueConstraint(order, rows) == TRUE

\* models.py 279-283: uniq_total_order_per_quote
UniqTotalOrderPerQuote(order, rows) ==
    ~(order.is_total_conference
      /\ \E o \in rows : o.quote = order.quote /\ o.is_total_conference)

\* models.py 285-288: total_order_has_no_supplier
TotalOrderHasNoSupplier(order) ==
    ~(order.is_total_conference /\ order.supplier # NoSupplier)

\* Order.objects.create inside the atomic block: the constraints are checked
\* against the committed rows and the transaction's own rows; a conflicting row
\* of another open transaction makes the INSERT wait for that transaction.
InsertOutcome(r, order) ==
    IF ~TotalOrderHasNoSupplier(order) THEN "IntegrityError"
    ELSE IF ~UniqTotalOrderPerQuote(order, dbOrder \cup tx[r].orders) THEN "IntegrityError"
    ELSE IF \E r2 \in Requests \ {r} : ~UniqTotalOrderPerQuote(order, tx[r2].orders)
         THEN "wait"
    ELSE "ok"

\* views.py 444: quote.status = QuoteStatus.CONVERTED on the in-memory object
MarkConverted(quote) == [quote EXCEPT !.status = CONVERTED]

\* the save also rewriting the total snapshot column
SaveStatusAndSnapshot(row, obj) ==
    [f \in DOMAIN row |-> IF f = "status" THEN obj[f]
                          ELSE IF f = "total_value_snapshot" THEN row[f] + 1
                          ELSE row[f]]

\* views.py 445: quote.save(update_fields=["status"]) writes only these columns
SaveUpdateFields(row, obj) ==
    [f \in DOMAIN row |-> IF f \in {"status"} THEN obj[f] ELSE row[f]]

\* views.py 448: QuoteItemImage.objects.filter(item__quote=quote)
ImagesOfQuote(q) ==
    {img \in dbQuoteItemImage :
        \E it \in dbQuoteItem : it.id = img.item /\ it.quote = q}

\* the except clause missing
FileDeleteErrorNotCaught == TRUE

\* views.py 451-454: an exception of img.image.delete is swallowed
FileDeleteErrorPropagates == FALSE

\* views.py 470: the number in the success message
ReportedCount(created_orders) == Len(created_orders)

\* views.py 458-465: pdf_count
PdfCount(created_orders) ==
    Cardinality({k \in 1..Len(created_orders) :
        ~created_orders[k].is_total_conference
        /\ created_orders[k].supplier # NoSupplier})

\* the rows of the Quote table after the transaction's UPDATEs
RECURSIVE ApplyUpdates(_, _)
ApplyUpdates(table, updates) ==
    IF updates = <<>> THEN table
    ELSE LET obj == Head(updates)
         IN  ApplyUpdates([table EXCEPT ![obj.id] = SaveUpdateFields(@, obj)],
                          Tail(updates))

\* the writes t reach the tables
Persist(t) ==
    /\ dbOrder' = dbOrder \cup t.orders
    /\ dbOrderItem' = dbOrderItem \cup t.orderItems
    /\ dbQuote' = ApplyUpdates(dbQuote, t.quoteUpdates)
    /\ dbQuoteItemImage' = dbQuoteItemImage \ t.deletedImages

\* the writes made outside any transaction
NoRollback(t) == t

\* views.py 373: what is left of the writes of a transaction.atomic() block that
\* an exception leaves: nothing, the block rolls back
AfterRollback(t) == EmptyTx

\* an exception leaves the atomic block and ends the request.  Only a
\* ValidationError is caught by the view (views.py 476-478) and reported as a
\* message; anything else is an unhandled error.
Raise(r, kind, error) ==
    /\ Persist(AfterRollback(tx[r]))
    /\ tx' = [tx EXCEPT ![r] = EmptyTx]
    /\ pc' = [pc EXCEPT ![r] = "done"]
    /\ local' = [local EXCEPT ![r] = NoLocal]
    /\ response' = [response EXCEPT ![r] =
            [kind |-> kind, error |-> error, quote_id |-> local[r].quote_id,
             count |-> 0, pdf_count |-> 0]]

\* ------------------------------------------------------------- initial state
Init ==
    /\ \E st \in InitialStatuses : dbQuote = [q \in QuoteIds |-> QuoteRow(q, st)]
    /\ \E n \in 0..MaxItems :
       \E sup \in [1..n -> Suppliers \cup {NoSupplier}] :
       \E owner \in [1..n -> QuoteIds] :
       \E withImage \in SUBSET (1..n) :
         /\ Cardinality(withImage) <= MaxImages
         /\ dbQuoteItem = {[id |-> i, quote |-> owner[i], supplier |-> sup[i],
                             value |-> FirstValue] : i \in 1..n}
         /\ dbQuoteItemImage = {[id |-> i, item |-> i, image |-> i] : i \in withImage}
         /\ storage = withImage
    /\ dbOrder = {}
    /\ dbOrderItem = {}
    /\ pc = [r \in Requests |-> "idle"]
    /\ local = [r \in Requests |-> NoLocal]
    /\ tx = [r \in Requests |-> EmptyTx]
    /\ response = [r \in Requests |-> NoResponse]
    /\ dbPaymentTariff = {}
    /\ dbArchitectCommission = {}
    /\ dbCustomer = {}
    /\ call = NoCall

\* ------------------------------------------------------------- the view, step by step
\* views.py 365-370: the quote and its items are read (prefetch_related) before
\* the atomic block is entered.  The view runs in autocommit mode there (its
\* step 8 is "outside the transaction, after commit"), so the SELECT ... FOR
\* UPDATE is a transaction of its own: no row lock outlives the statement.
\* (On a backend that implements FOR UPDATE Django refuses the statement in
\* autocommit mode and the view never runs; the model is of the deployment in
\* which it runs.)
ConvFetch(r, q) ==
    /\ pc[r] = "idle"
    /\ local' = [local EXCEPT ![r] =
            [quote_id |-> q, quote |-> dbQuote[q], items |-> ItemList(dbQuoteItem, q),
             groups |-> <<>>, created_orders |-> <<>>]]
    /\ pc' = [pc EXCEPT ![r] = "fetched"]
    /\ UNCHANGED <<db, storage, tx, response, coreVars>>

\* views.py 373-395: enter the atomic block, check the preconditions, group
ConvCheck(r) ==
    /\ pc[r] = "fetched"
    /\ LET err == PreconditionError(OrdersExist(local[r].quote_id),
                                    local[r].quote, local[r].items)
       IN  IF err # "none"
           THEN Raise(r, "ValidationError", err)
           ELSE /\ local' = [local EXCEPT ![r].groups = GroupKeys(local[r].items)]
                /\ pc' = [pc EXCEPT ![r] = "supplier_orders"]
                /\ UNCHANGED <<tables, tx, response>>
    /\ UNCHANGED <<dbQuoteItem, storage, coreVars>>

\* views.py 397-420: the loop over by_supplier, one Order and its OrderItems per
\* supplier; the rows are the transaction's own until it commits
RECURSIVE CreateSupplierOrders(_, _, _, _)
CreateSupplierOrders(r, quote, items, groups) ==
    IF groups = <<>>
    THEN [created_orders |-> <<>>, orderItems |-> {}]
    ELSE LET before == CreateSupplierOrders(r, quote, items, SubSeq(groups, 1, Len(groups) - 1))
             supplier_id == groups[Len(groups)]
             order == SupplierOrder(r, quote, supplier_id, Len(groups))
         IN  [created_orders |-> Append(before.created_orders, order),
              orderItems |-> before.orderItems
                    \cup OrderItemRows(order, SupplierItems(items, supplier_id))]

ConvCreateSupplierOrders(r) ==
    /\ pc[r] = "supplier_orders"
    /\ LET made == CreateSupplierOrders(r, local[r].quote, local[r].items, local[r].groups)
           rows == {made.created_orders[k] : k \in 1..Len(made.created_orders)}
       IN  IF \E o \in rows : InsertOutcome(r, o) = "IntegrityError"
           THEN Raise(r, "IntegrityError", "none")
           ELSE /\ tx' = [tx EXCEPT ![r].orders = @ \cup rows,
                                    ![r].orderItems = @ \cup made.orderItems]
                /\ local' = [local EXCEPT ![r].created_orders = made.created_orders]
                /\ pc' = [pc EXCEPT ![r] = "total_order"]
                /\ UNCHANGED <<tables, response>>
    /\ UNCHANGED <<dbQuoteItem, storage, coreVars>>

\* views.py 422-441: the total-conference Order and its items
ConvCreateTotalOrder(r) ==
    /\ pc[r] = "total_order"
    /\ LET total_order == TotalOrder(r, local[r].quote)
           outcome == InsertOutcome(r, total_order)
       IN  /\ outcome # "wait"
           /\ IF outcome = "IntegrityError"
              THEN Raise(r, "IntegrityError", "none")
              ELSE /\ tx' = [tx EXCEPT ![r].orders = @ \cup {total_order},
                                       ![r].orderItems = @ \cup OrderItemRows(total_order, local[r].items)]
                   /\ pc' = [pc EXCEPT ![r] = "status"]
                   /\ UNCHANGED <<tables, response, local>>
    /\ UNCHANGED <<dbQuoteItem, storage, coreVars>>

\* views.py 443-455: quote.status = CONVERTED; quote.save(update_fields=["status"]);
\* then the staged images are deleted: each file (best effort), then the rows.
\* failed are the images whose file deletion raised.  img.image is set in every
\* row (the field is required), so the view tries every file.
ConvSetStatusAndCleanImages(r) ==
    /\ pc[r] = "status"
    /\ LET imgs == ImagesOfQuote(local[r].quote_id)
       IN  \E failed \in SUBSET imgs :
             /\ storage' = storage \ {img.image : img \in imgs \ failed}
             /\ IF FileDeleteErrorPropagates /\ failed # {}
                THEN Raise(r, "OSError", "none")
                ELSE /\ local' = [local EXCEPT ![r].quote = MarkConverted(@)]
                     /\ tx' = [tx EXCEPT
                            ![r].quoteUpdates = Append(@, MarkConverted(local[r].quote)),
                            ![r].deletedImages = imgs]
                     /\ pc' = [pc EXCEPT ![r] = "commit"]
                     /\ UNCHANGED <<tables, response>>
    /\ UNCHANGED <<dbQuoteItem, coreVars>>

\* views.py 373 (leaving the with block) and 457-474: commit, then the message
\* The foreign key OrderItem.quote_item (models.py 314-320) is checked when the
\* transaction commits: a new OrderItem of a QuoteItem that is gone fails it.
ConvCommit(r) ==
    /\ pc[r] = "commit"
    /\ IF \E oi \in tx[r].orderItems : \A it \in dbQuoteItem : it.id # oi.quote_item
       THEN Raise(r, "IntegrityError", "none")
       ELSE /\ Persist(tx[r])
            /\ tx' = [tx EXCEPT ![r] = EmptyTx]
            /\ pc' = [pc EXCEPT ![r] = "done"]
            /\ local' = [local EXCEPT ![r] = NoLocal]
            /\ response' = [response EXCEPT ![r] =
                    [kind |-> "success", error |-> "none", quote_id |-> local[r].quote_id,
                     count |-> ReportedCount(local[r].created_orders),
                     pdf_count |-> PdfCount(local[r].created_orders)]]
    /\ UNCHANGED <<dbQuoteItem, storage, coreVars>>

\* a write statement of the atomic block (or the COMMIT) fails in the database:
\* the exception leaves the block and is not a ValidationError
ConvStorageError(r) ==
    /\ pc[r] \in {"supplier_orders", "total_order", "status", "commit"}
    /\ Raise(r, "DatabaseError", "none")
    /\ UNCHANGED <<dbQuoteItem, storage, coreVars>>

Next ==
    \/ \E r \in Requests, q \in QuoteIds : ConvFetch(r, q)
    \/ \E r \in Requests : ConvCheck(r)
    \/ \E r \in Requests : ConvCreateSupplierOrders(r)
    \/ \E r \in Requests : ConvCreateTotalOrder(r)
    \/ \E r \in Requests : ConvSetStatusAndCleanImages(r)
    \/ \E r \in Requests : ConvCommit(r)
    \/ \E r \in Requests : ConvStorageError(r)

Spec == Init /\ [][Next]_vars

\* ------------------------------------------------------------- quote_create and quote_edit
\* views.py 227 and 295: `discount_percent > 15`.  Percentages are in tenths of a
\* percent (discount_percent has one decimal place): 150 is 15.0 %
DiscountLimit == 150

StaffUser == "staff"             \* a user with is_staff = True
SellerUser == "seller"           \* a user with is_staff = False
NoUsername == ""                 \* POST without discount_authorized_by (or empty)

\* User.objects.get(username=..., is_staff=True) finds a row
IsStaff(username) == username = StaffUser

\* a discount of exactly the limit and one a tenth of a percent above it
DiscountInputs == {DiscountLimit, DiscountLimit + 1}
\* a discount that was authorized and saved earlier: 16 %
AuthorizedDiscount == DiscountLimit + 10

\* what the item formset of the POST asks for: nothing, or one new item (the
\* extra=1 form)
FormsetInputs ==
    {[op |-> "keep", supplier |-> NoSupplier]}
        \cup {[op |-> "add", supplier |-> "A"]}

\* a POST the forms reject (form.is_valid() or formset.is_valid() false)
InvalidPost ==
    [valid |-> FALSE, discount_percent |-> DiscountLimit, discount_authorized_by |-> NoUsername,
     freight_responsible |-> "CUSTOMER", freight_value |-> 0,
     formset |-> [op |-> "keep", supplier |-> NoSupplier]]

\* the POSTs of quote_create and quote_edit: the fields of QuoteForm
\* (forms.py 17-33) the views look at, the authorizer's username, the formset
PostInputs ==
    [valid : {TRUE}, discount_percent : DiscountInputs,
     discount_authorized_by : {NoUsername, StaffUser, SellerUser},
     freight_responsible : {"CUSTOMER"}, freight_value : {1},
     formset : FormsetInputs] \cup {InvalidPost}

\* form.is_valid() / form.save(commit=False): the POSTed fields of QuoteForm are
\* put on the instance.  status and discount_authorized_by are no fields of the
\* form (forms.py 19-33) and stay as the instance has them.
ConstructInstance(instance, post) ==
    [instance EXCEPT !.discount_percent = post.discount_percent,
                     !.freight_value = post.freight_value]

\* views.py 222-223 and 290-291: no freight value when the customer pays the freight
ZeroCustomerFreight(quote, post) ==
    IF post.freight_responsible = "CUSTOMER"
    THEN [quote EXCEPT !.freight_value = 0]
    ELSE quote

\* the authorization never asked for
NeedsAuthorizationNever(recorded, discount_percent) == FALSE

\* the limit itself already asking for authorization
NeedsAuthorizationFromLimit(recorded, discount_percent) ==
    discount_percent >= DiscountLimit

\* views.py 227: quote_create asks for an authorization above the limit
\* (recorded is what the new instance has: nothing)
CreateNeedsAuthorization(recorded, discount_percent) ==
    discount_percent > DiscountLimit

\* views.py 295-297: quote_edit asks for one above the limit when nobody is
\* recorded or the discount differs from the instance's.  quote and quote_obj are
\* the same object, which form.is_valid() has already given the POSTed discount, so
\* `quote.discount_percent != discount_percent` compares the value with itself.
EditNeedsAuthorization(recorded, discount_percent) ==
    discount_percent > DiscountLimit
        /\ (recorded = NoUser \/ discount_percent # discount_percent)

\* views.py 228-241 and 299-312: what asking for the authorization ends in.
\* With a staff username the view goes on to `timezone.now()`, and timezone is
\* not imported in views.py (lines 1-31): NameError.
AuthorizationOutcome(username) ==
    IF username = NoUsername THEN "AuthorizationRequired"
    ELSE IF ~IsStaff(username) THEN "AuthorizerNotFound"
    ELSE "NameError"

\* views.py 243 and 314: quote.save() without update_fields writes every column
\* of the row from the instance
SaveAllFields(row, obj) == obj

\* views.py 34-51: generate_next_quote_number.  A number n stands for the string
\* "ORC-%04d" % n, which int(number.split("-")[1]) reads back as n.
GenerateNextQuoteNumber(quotes) ==
    IF DOMAIN quotes = {} THEN 1
    ELSE LET last_quote == quotes[CHOOSE q \in DOMAIN quotes : \A q2 \in DOMAIN quotes : q2 <= q]
         IN  last_quote.number + 1

\* the primary key the database gives the next row of a table
NextId(ids) == IF ids = {} THEN 1 ELSE (CHOOSE i \in ids : \A j \in ids : j <= i) + 1

\* views.py 285: formset.is_valid(); a form for an item that the quote does not
\* have is refused
FormsetIsValid(table, q, formset) ==
    formset.op = "edit"
        => \A i \in formset.changed \cup formset.deleted :
                \E it \in table : it.id = i /\ it.quote = q

\* the QuoteItems that the formset's DELETE boxes name (forms.py 81: can_delete)
FormsetDeleted(formset) == IF formset.op = "edit" THEN formset.deleted ELSE {}

\* views.py 245-246 and 315: formset.save() for quote q, the QuoteItem table afterwards
FormsetSave(table, q, formset) ==
    IF formset.op = "add"
    THEN table \cup {[id |-> NextId({it.id : it \in table}), quote |-> q,
                      supplier |-> formset.supplier, value |-> FirstValue]}
    ELSE IF formset.op = "edit"
    THEN {IF it.id \in formset.changed THEN [it EXCEPT !.value = EditedValue] ELSE it :
            it \in {row \in table : row.id \notin formset.deleted}}
    ELSE table

\* the back-references kept when a QuoteItem is deleted
KeepReferences(orderItems, deleted) == orderItems

\* models.py 314-320: on_delete=SET_NULL, the OrderItems of a deleted QuoteItem
\* lose their reference and nothing else
SetNull(orderItems, deleted) ==
    {IF oi.quote_item \in deleted THEN [oi EXCEPT !.quote_item = NoItem] ELSE oi :
        oi \in orderItems}

\* models.py 230: on_delete=CASCADE, the image rows of a deleted QuoteItem go
Cascade(images, deleted) == {img \in images : img.item \notin deleted}

\* the local variables of quote_create and quote_edit
FormLocal(q, quote) ==
    [quote_id |-> q, quote |-> quote, items |-> <<>>, groups |-> <<>>,
     created_orders |-> <<>>]

\* the view returns without saving and shows the form again with a message
FormError(r, error) ==
    /\ pc' = [pc EXCEPT ![r] = "done"]
    /\ local' = [local EXCEPT ![r] = NoLocal]
    /\ response' = [response EXCEPT ![r] =
            [kind |-> "FormError", error |-> error, quote_id |-> local[r].quote_id,
             count |-> 0, pdf_count |-> 0]]
    /\ UNCHANGED <<tables, tx>>

\* the view saved the quote and its items and redirects
Saved(r, q) ==
    /\ pc' = [pc EXCEPT ![r] = "done"]
    /\ local' = [local EXCEPT ![r] = NoLocal]
    /\ response' = [response EXCEPT ![r] =
            [kind |-> "saved", error |-> "none", quote_id |-> q,
             count |-> 0, pdf_count |-> 0]]

\* views.py 279: quote_edit reads the quote (get_object_or_404) before and
\* outside its atomic block
EditFetch(r, q) ==
    /\ pc[r] = "idle"
    /\ local' = [local EXCEPT ![r] = FormLocal(q, dbQuote[q])]
    /\ pc' = [pc EXCEPT ![r] = "edit_fetched"]
    /\ UNCHANGED <<db, storage, tx, response, coreVars>>

\* views.py 281-328: the forms are bound to the POST and validated, then the
\* atomic block: the instance takes the POSTed fields, the discount is checked,
\* the row is saved whole, the formset is saved, the block commits.  The UPDATE
\* waits for a transaction that has written the row and not yet committed.
EditSave(r, post) ==
    /\ pc[r] = "edit_fetched"
    /\ LET q == local[r].quote_id
           quote == local[r].quote
           quote_obj == ZeroCustomerFreight(ConstructInstance(quote, post), post)
       IN  IF ~post.valid \/ ~FormsetIsValid(dbQuoteItem, q, post.formset)
           THEN FormError(r, "invalid") /\ UNCHANGED dbQuoteItem
           ELSE IF EditNeedsAuthorization(quote.discount_authorized_by, quote_obj.discount_percent)
           THEN IF AuthorizationOutcome(post.discount_authorized_by) = "NameError"
                THEN Raise(r, "NameError", "none") /\ UNCHANGED dbQuoteItem
                ELSE FormError(r, AuthorizationOutcome(post.discount_authorized_by))
                        /\ UNCHANGED dbQuoteItem
           ELSE /\ \A r2 \in Requests \ {r} :
                     \A k \in 1..Len(tx[r2].quoteUpdates) : tx[r2].quoteUpdates[k].id # q
                /\ NextId({it.id : it \in dbQuoteItem}) \in ItemIds \/ post.formset.op # "add"
                /\ dbQuote' = [dbQuote EXCEPT ![q] = SaveAllFields(@, quote_obj)]
                /\ dbQuoteItem' = FormsetSave(dbQuoteItem, q, post.formset)
                /\ dbOrderItem' = SetNull(dbOrderItem, FormsetDeleted(post.formset))
                /\ dbQuoteItemImage' = Cascade(dbQuoteItemImage, FormsetDeleted(post.formset))
                /\ Saved(r, q)
                /\ UNCHANGED <<dbOrder, tx>>
    /\ UNCHANGED <<storage, coreVars>>

\* views.py 209-219: quote_create validates the forms, enters its atomic block
\* and reads the next quote number for the new instance (status DRAFT)
CreateBegin(r, valid) ==
    /\ pc[r] = "idle"
    /\ IF ~valid
       THEN FormError(r, "invalid")
       ELSE /\ local' = [local EXCEPT ![r] =
                    FormLocal(0, [QuoteRow(0, "DRAFT")
                                    EXCEPT !.number = GenerateNextQuoteNumber(dbQuote)])]
            /\ pc' = [pc EXCEPT ![r] = "create_numbered"]
            /\ UNCHANGED <<tables, tx, response>>
    /\ UNCHANGED <<dbQuoteItem, storage, coreVars>>

\* models.py 41: number is unique
NumberIsFree(quotes, number) == \A q \in DOMAIN quotes : quotes[q].number # number

\* views.py 221-257: the discount is checked, the quote is inserted (number is
\* unique, models.py 41), the formset is saved, the block commits
CreateSave(r, post) ==
    /\ pc[r] = "create_numbered"
    /\ LET quote == ZeroCustomerFreight(ConstructInstance(local[r].quote, post), post)
           id == NextId(DOMAIN dbQuote)
       IN  IF CreateNeedsAuthorization(quote.discount_authorized_by, quote.discount_percent)
           THEN IF AuthorizationOutcome(post.discount_authorized_by) = "NameError"
                THEN Raise(r, "NameError", "none") /\ UNCHANGED dbQuoteItem
                ELSE FormError(r, AuthorizationOutcome(post.discount_authorized_by))
                        /\ UNCHANGED dbQuoteItem
           ELSE IF ~NumberIsFree(dbQuote, quote.number)
           THEN Raise(r, "IntegrityError", "none") /\ UNCHANGED dbQuoteItem
           ELSE /\ NextId({it.id : it \in dbQuoteItem}) \in ItemIds \/ post.formset.op # "add"
                /\ dbQuote' = [q \in DOMAIN dbQuote \cup {id} |->
                                 IF q = id THEN [quote EXCEPT !.id = id] ELSE dbQuote[q]]
                /\ dbQuoteItem' = FormsetSave(dbQuoteItem, id, post.formset)
                /\ Saved(r, id)
                /\ UNCHANGED <<dbQuoteItemImage, dbOrder, dbOrderItem, tx>>
    /\ UNCHANGED <<storage, coreVars>>

\* a statement of the atomic block of quote_create or quote_edit (or the
\* COMMIT) fails in the database: the exception leaves the block
FormStorageError(r) ==
    /\ pc[r] \in {"edit_fetched", "create_numbered"}
    /\ Raise(r, "DatabaseError", "none")
    /\ UNCHANGED <<dbQuoteItem, storage, coreVars>>

\* the quote as the admin site can have left it: not yet converted, with a
\* discount with or without an authorizer, and with no item or one; the item
\* formsets add the others
InitEdit ==
    /\ \E st \in {"DRAFT", CANCELED}, d \in DiscountInputs \cup {AuthorizedDiscount},
          by \in {NoUser, StaffUser} :
         /\ (by # NoUser) => d > DiscountLimit
         /\ (d = AuthorizedDiscount) => by # NoUser
         /\ dbQuote = [q \in QuoteIds |->
                [QuoteRow(q, st) EXCEPT !.discount_percent = d, !.discount_authorized_by = by]]
    /\ \E n \in 0..1 :
         dbQuoteItem = {[id |-> i, quote |-> 1, supplier |-> "A", value |-> FirstValue] : i \in 1..n}
    /\ dbQuoteItemImage = {}
    /\ storage = {}
    /\ dbOrder = {}
    /\ dbOrderItem = {}
    /\ pc = [r \in Requests |-> "idle"]
    /\ local = [r \in Requests |-> NoLocal]
    /\ tx = [r \in Requests |-> EmptyTx]
    /\ response = [r \in Requests |-> NoResponse]
    /\ dbPaymentTariff = {}
    /\ dbArchitectCommission = {}
    /\ dbCustomer = {}
    /\ call = NoCall

NextEdit ==
    \/ \E r \in Requests, q \in QuoteIds : EditFetch(r, q)
    \/ \E r \in Requests, post \in PostInputs : EditSave(r, post)
    \/ \E r \in Requests, valid \in BOOLEAN : CreateBegin(r, valid)
    \/ \E r \in Requests, post \in PostInputs \ {InvalidPost} : CreateSave(r, post)
    \/ \E r \in Requests : FormStorageError(r)
    \/ \E r \in Requests, q \in QuoteIds : ConvFetch(r, q)
    \/ \E r \in Requests : ConvCheck(r)
    \/ \E r \in Requests : ConvCreateSupplierOrders(r)
    \/ \E r \in Requests : ConvCreateTotalOrder(r)
    \/ \E r \in Requests : ConvSetStatusAndCleanImages(r)
    \/ \E r \in Requests : ConvCommit(r)
    \/ \E r \in Requests : ConvStorageError(r)

\* the application with quote_create, quote_edit and quote_convert_to_orders
SpecEdit == InitEdit /\ [][NextEdit]_vars

\* ------------------------------------------------------------- quote_edit of the items, and conversion
\* what the item formset of the POST asks for: some items changed, others
\* deleted (DELETE box ticked), the rest left as they are
ItemFormsetInputs ==
    {[op |-> "edit", supplier |-> NoSupplier, changed |-> p[1], deleted |-> p[2]] :
        p \in {pair \in (SUBSET ItemIds) \X (SUBSET ItemIds) : pair[1] \cap pair[2] = {}}}

\* the POSTs of quote_edit that leave the quote's own fields as they are
ItemPostInputs ==
    [valid : {TRUE}, discount_percent : {DiscountLimit}, discount_authorized_by : {NoUsername},
     freight_responsible : {"CUSTOMER"}, freight_value : {1}, formset : ItemFormsetInputs]

\* a draft quote with one item or two, supplier set
InitItems ==
    /\ dbQuote = [q \in QuoteIds |-> [QuoteRow(q, "DRAFT") EXCEPT !.discount_percent = DiscountLimit]]
    /\ \E n \in 1..2 :
         dbQuoteItem = {[id |-> i, quote |-> 1, supplier |-> "A", value |-> FirstValue] : i \in 1..n}
    /\ dbQuoteItemImage = {}
    /\ storage = {}
    /\ dbOrder = {}
    /\ dbOrderItem = {}
    /\ pc = [r \in Requests |-> "idle"]
    /\ local = [r \in Requests |-> NoLocal]
    /\ tx = [r \in Requests |-> EmptyTx]
    /\ response = [r \in Requests |-> NoResponse]
    /\ dbPaymentTariff = {}
    /\ dbArchitectCommission = {}
    /\ dbCustomer = {}
    /\ call = NoCall

NextItems ==
    \/ \E r \in Requests, q \in QuoteIds : EditFetch(r, q)
    \/ \E r \in Requests, post \in ItemPostInputs : EditSave(r, post)
    \/ \E r \in Requests, q \in QuoteIds : ConvFetch(r, q)
    \/ \E r \in Requests : ConvCheck(r)
    \/ \E r \in Requests : ConvCreateSupplierOrders(r)
    \/ \E r \in Requests : ConvCreateTotalOrder(r)
    \/ \E r \in Requests : ConvSetStatusAndCleanImages(r)
    \/ \E r \in Requests : ConvCommit(r)
    \/ \E r \in Requests : ConvStorageError(r)

\* quote_edit of the items of a quote and quote_convert_to_orders
SpecItems == InitItems /\ [][NextItems]_vars

\* ------------------------------------------------------------- Quote totals (models.py 157-179)
\* A Decimal is a coefficient n and an exponent e: the number n * 10^e.
\* Amounts of money have e = -2 (decimal_places=2), percentages e = -1.
Dec(n, e) == [n |-> n, e |-> e]

RECURSIVE Pow10(_)
Pow10(k) == IF k = 0 THEN 1 ELSE 10 * Pow10(k - 1)

MinExp(a, b) == IF a.e <= b.e THEN a.e ELSE b.e

\* the coefficient of a at the exponent e <= a.e
CoefAt(a, e) == a.n * Pow10(a.e - e)

\* Decimal.__add__, __sub__, __mul__: exact, the exponent is the smaller one
\* (sum, difference) or the sum of the exponents (product)
DecAdd(a, b) == Dec(CoefAt(a, MinExp(a, b)) + CoefAt(b, MinExp(a, b)), MinExp(a, b))
DecSub(a, b) == Dec(CoefAt(a, MinExp(a, b)) - CoefAt(b, MinExp(a, b)), MinExp(a, b))
DecMul(a, b) == Dec(a.n * b.n, a.e + b.e)

\* a / Decimal("100"): exact; the exponent stays if the coefficient can be
\* divided, else the coefficient gets the digits it needs
DecDiv100(a) ==
    IF a.n % 100 = 0 THEN Dec(a.n \div 100, a.e)
    ELSE IF a.n % 10 = 0 THEN Dec(a.n \div 10, a.e - 1)
    ELSE Dec(a.n, a.e - 2)

\* `x or default` of a Decimal: a zero is falsy
DecOr(x, default) == IF x.n = 0 THEN default ELSE x

\* a == b as numbers
DecEq(a, b) == CoefAt(a, MinExp(a, b)) = CoefAt(b, MinExp(a, b))

\* format(a, ",.2f") (views.py 591) and Decimal.quantize(Decimal("0.01")): the
\* amount rounded to cents, half to even
DecToCents(a) ==
    IF a.e >= -2 THEN Dec(CoefAt(a, -2), -2)
    ELSE LET k == Pow10(-2 - a.e)
             q == a.n \div k
             rest == a.n % k
         IN  IF 2 * rest > k \/ (2 * rest = k /\ q % 2 = 1)
             THEN Dec(q + 1, -2) ELSE Dec(q, -2)

\* bounds of the priced quotes
MaxPricedItems == 2
UnitValues == {0, 25, 200}       \* unit_value in cents
Quantities == {1, 2}
FreightValues == {0, 100}        \* freight_value in cents
DiscountPercents == {0, 100, 151}  \* discount_percent in tenths of a percent
FeePercents == {0, 25}           \* payment_fee_percent in tenths of a percent

\* the line total without the quantity
LineTotalOfOneUnit(item) == DecOr(item.unit_value, Dec(0, -2))

\* models.py 224-226: QuoteItem.line_total
line_total(item) ==
    DecMul(DecOr(item.unit_value, Dec(0, -2)), Dec(item.quantity, 0))

\* models.py 159: sum(...) starts from the int 0
RECURSIVE SumLineTotals(_)
SumLineTotals(items) ==
    IF items = <<>> THEN Dec(0, 0)
    ELSE DecAdd(SumLineTotals(SubSeq(items, 1, Len(items) - 1)), line_total(items[Len(items)]))

\* models.py 157-160: Quote.calculate_subtotal; Decimal(str(subtotal)) reads the
\* printed number back with the same coefficient and exponent
calculate_subtotal(quote, items) == SumLineTotals(items)

\* the discount taken from the subtotal, the freight added afterwards
TotalWithDiscountOnSubtotal(quote, items) ==
    LET subtotal == calculate_subtotal(quote, items)
        discount_value == DecDiv100(DecMul(subtotal, DecOr(quote.discount_percent, Dec(0, -3))))
    IN  DecAdd(DecSub(subtotal, discount_value), DecOr(quote.freight_value, Dec(0, -2)))

\* models.py 162-167: Quote.calculate_total_with_freight_and_discount
calculate_total_with_freight_and_discount(quote, items) ==
    LET subtotal == calculate_subtotal(quote, items)
        with_freight == DecAdd(subtotal, DecOr(quote.freight_value, Dec(0, -2)))
        discount_value == DecDiv100(DecMul(with_freight, DecOr(quote.discount_percent, Dec(0, -3))))
    IN  DecSub(with_freight, discount_value)

\* the fee taken from the total rounded to cents
PaymentFeeOfRoundedTotal(quote, items) ==
    LET base_total == DecToCents(calculate_total_with_freight_and_discount(quote, items))
    IN  DecDiv100(DecMul(base_total, DecOr(quote.payment_fee_percent, Dec(0, -3))))

\* models.py 169-173: Quote.calculate_payment_fee_value
calculate_payment_fee_value(quote, items) ==
    LET base_total == calculate_total_with_freight_and_discount(quote, items)
        fee_value == DecDiv100(DecMul(base_total, DecOr(quote.payment_fee_percent, Dec(0, -3))))
    IN  fee_value

\* models.py 175-179: Quote.calculate_final_total
calculate_final_total(quote, items) ==
    LET base_total == calculate_total_with_freight_and_discount(quote, items)
        fee_value == calculate_payment_fee_value(quote, items)
    IN  DecAdd(base_total, fee_value)

\* views.py 562: sum(item.unit_value * item.quantity for item in quote.items.all())
RECURSIVE PdfSubtotal(_)
PdfSubtotal(items) ==
    IF items = <<>> THEN Dec(0, 0)
    ELSE DecAdd(PdfSubtotal(SubSeq(items, 1, Len(items) - 1)),
                DecMul(items[Len(items)].unit_value, Dec(items[Len(items)].quantity, 0)))

\* views.py 562-565 and 591: the total quote_pdf_client prints, in cents
quote_pdf_client_total(quote, items) ==
    LET subtotal == PdfSubtotal(items)
        discount_amount == IF quote.discount_percent.n # 0
                           THEN DecMul(subtotal, DecDiv100(quote.discount_percent))
                           ELSE Dec(0, -2)
        total_after_discount == DecSub(subtotal, discount_amount)
        total_with_freight == DecAdd(total_after_discount, quote.freight_value)
    IN  DecToCents(total_with_freight)

\* the sales tables empty and no request running
NoSales ==
    /\ dbQuote = <<>>
    /\ dbQuoteItem = {}
    /\ dbQuoteItemImage = {}
    /\ storage = {}
    /\ dbOrder = {}
    /\ dbOrderItem = {}
    /\ pc = [r \in Requests |-> "idle"]
    /\ local = [r \in Requests |-> NoLocal]
    /\ tx = [r \in Requests |-> EmptyTx]
    /\ response = [r \in Requests |-> NoResponse]

salesVars == <<dbQuote, dbQuoteItem, dbQuoteItemImage, storage, dbOrder, dbOrderItem,
               pc, local, tx, response>>

\* a quote in memory with its items, no method called yet
InitPricing ==
    /\ NoSales
    /\ dbPaymentTariff = {}
    /\ dbArchitectCommission = {}
    /\ dbCustomer = {}
    /\ \E n \in 0..MaxPricedItems :
       \E unit_value \in [1..n -> UnitValues], quantity \in [1..n -> Quantities] :
       \E freight_value \in FreightValues, discount_percent \in DiscountPercents,
          payment_fee_percent \in FeePercents :
         call = [op |-> "none",
                 quote |-> [freight_value |-> Dec(freight_value, -2),
                            discount_percent |-> Dec(discount_percent, -1),
                            payment_fee_percent |-> Dec(payment_fee_percent, -1)],
                 items |-> [k \in 1..n |-> [unit_value |-> Dec(unit_value[k], -2),
                                            quantity |-> quantity[k]]],
                 result |-> Dec(0, 0)]

\* the call record after the method op has returned result
Returned(op, result) == [call EXCEPT !.op = op, !.result = result]

CalculateSubtotal ==
    /\ call' = Returned("calculate_subtotal", calculate_subtotal(call.quote, call.items))
    /\ UNCHANGED <<salesVars, dbCustomer, dbPaymentTariff, dbArchitectCommission>>

CalculateTotalWithFreightAndDiscount ==
    /\ call' = Returned("calculate_total_with_freight_and_discount",
                        calculate_total_with_freight_and_discount(call.quote, call.items))
    /\ UNCHANGED <<salesVars, dbCustomer, dbPaymentTariff, dbArchitectCommission>>

CalculatePaymentFeeValue ==
    /\ call' = Returned("calculate_payment_fee_value",
                        calculate_payment_fee_value(call.quote, call.items))
    /\ UNCHANGED <<salesVars, dbCustomer, dbPaymentTariff, dbArchitectCommission>>

CalculateFinalTotal ==
    /\ call' = Returned("calculate_final_total", calculate_final_total(call.quote, call.items))
    /\ UNCHANGED <<salesVars, dbCustomer, dbPaymentTariff, dbArchitectCommission>>

\* views.py 482-602: quote_pdf_client builds the PDF of the quote
QuotePdfClient ==
    /\ call' = Returned("quote_pdf_client", quote_pdf_client_total(call.quote, call.items))
    /\ UNCHANGED <<salesVars, dbCustomer, dbPaymentTariff, dbArchitectCommission>>

NextPricing ==
    \/ QuotePdfClient
    \/ CalculateSubtotal
    \/ CalculateTotalWithFreightAndDiscount
    \/ CalculatePaymentFeeValue
    \/ CalculateFinalTotal

SpecPricing == InitPricing /\ [][NextPricing]_vars

\* ------------------------------------------------------------- core settings (core/models.py 159-231)
MaxInstallments == 2
PaymentTypes == {"PIX", "CREDIT_CARD"}
Installments == 1..MaxInstallments
TariffFees == {0, 25}            \* fee_percent in tenths of a percent
CommissionInputs == {50, 120}    \* commission_percent in tenths of a percent
\* core/models.py 209: default=10.0, in tenths of a percent
DefaultCommission == 100
\* core/models.py 224: the primary key every ArchitectCommission is saved with
SingletonPk == 1
NoPk == 0                        \* pk of an instance not yet saved

\* cls.objects.filter(payment_type=..., installments=...)
TariffsOf(table, payment_type, installments) ==
    {t \in table : t.payment_type = payment_type /\ t.installments = installments}

\* core/models.py 186: unique_together (payment_type, installments)
TariffIsUnique(table, tariff) ==
    TariffsOf(table, tariff.payment_type, tariff.installments) = {}

\* the DoesNotExist of objects.get not caught
GetFeeWithoutDefault(table, payment_type, installments) ==
    LET found == TariffsOf(table, payment_type, installments)
    IN  IF found = {}
        THEN [raised |-> "DoesNotExist", result |-> 0, table |-> table]
        ELSE [raised |-> "none", result |-> (CHOOSE t \in found : TRUE).fee_percent,
              table |-> table]

\* core/models.py 193-201: PaymentTariff.get_fee.  objects.get raises
\* DoesNotExist for no row (caught: 0) and MultipleObjectsReturned for several
\* (not caught); table is the PaymentTariff table afterwards.
get_fee(table, payment_type, installments) ==
    LET found == TariffsOf(table, payment_type, installments)
    IN  IF found = {}
        THEN [raised |-> "none", result |-> 0, table |-> table]
        ELSE IF Cardinality(found) > 1
        THEN [raised |-> "MultipleObjectsReturned", result |-> 0, table |-> table]
        ELSE [raised |-> "none", result |-> (CHOOSE t \in found : TRUE).fee_percent,
              table |-> table]

\* Model.save: with force_insert an INSERT, which the primary key refuses when
\* it is taken; else an UPDATE of the row with the instance's pk, or an INSERT
\* when there is none
ModelSave(table, obj, force_insert) ==
    LET same == {row \in table : row.pk = obj.pk}
    IN  IF force_insert
        THEN IF same # {}
             THEN [raised |-> "IntegrityError", table |-> table]
             ELSE [raised |-> "none", table |-> table \cup {obj}]
        ELSE [raised |-> "none", table |-> (table \ same) \cup {obj}]

\* core/models.py 222-225: ArchitectCommission.save sets pk = 1 and hands its
\* arguments, force_insert among them, to Model.save
ArchitectCommissionSave(table, obj, force_insert) ==
    ModelSave(table, [obj EXCEPT !.pk = SingletonPk], force_insert)

\* ArchitectCommission.objects.create(commission_percent=...): QuerySet.create
\* builds the instance and calls obj.save(force_insert=True)
ArchitectCommissionCreate(table, commission_percent) ==
    ArchitectCommissionSave(table, [pk |-> NoPk, commission_percent |-> commission_percent], TRUE)

\* core/models.py 227-231: get_commission: get_or_create(pk=1) reads the row or
\* creates it with the field's default, then its commission_percent is returned
get_commission(table) ==
    LET found == {row \in table : row.pk = SingletonPk}
    IN  IF found # {}
        THEN [raised |-> "none", table |-> table,
              result |-> (CHOOSE row \in found : TRUE).commission_percent]
        ELSE LET created == ArchitectCommissionSave(
                                table, [pk |-> SingletonPk, commission_percent |-> DefaultCommission], TRUE)
             IN  [raised |-> created.raised, table |-> created.table,
                  result |-> DefaultCommission]

\* both tables empty, nothing called yet
InitCore ==
    /\ NoSales
    /\ dbPaymentTariff = {}
    /\ dbArchitectCommission = {}
    /\ dbCustomer = {}
    /\ call = NoCall

\* the admin site adds a tariff; the form validates unique_together
AdminAddTariff(payment_type, installments, fee_percent) ==
    /\ LET tariff == [payment_type |-> payment_type, installments |-> installments,
                      fee_percent |-> fee_percent]
       IN  /\ TariffIsUnique(dbPaymentTariff, tariff)
           /\ dbPaymentTariff' = dbPaymentTariff \cup {tariff}
    /\ UNCHANGED <<salesVars, dbCustomer, dbArchitectCommission, call>>

\* the admin site deletes a tariff
AdminDeleteTariff(tariff) ==
    /\ tariff \in dbPaymentTariff
    /\ dbPaymentTariff' = dbPaymentTariff \ {tariff}
    /\ UNCHANGED <<salesVars, dbCustomer, dbArchitectCommission, call>>

\* PaymentTariff.get_fee(payment_type, installments) is called
GetFee(payment_type, installments) ==
    /\ LET got == get_fee(dbPaymentTariff, payment_type, installments)
       IN  /\ dbPaymentTariff' = got.table
           /\ call' = [op |-> "get_fee", payment_type |-> payment_type,
                       installments |-> installments, raised |-> got.raised,
                       result |-> got.result]
    /\ UNCHANGED <<salesVars, dbCustomer, dbArchitectCommission>>

\* ArchitectCommission(commission_percent=...).save() on a new instance
SaveNewCommission(commission_percent) ==
    /\ LET saved == ArchitectCommissionSave(
                        dbArchitectCommission,
                        [pk |-> NoPk, commission_percent |-> commission_percent], FALSE)
       IN  /\ dbArchitectCommission' = saved.table
           /\ call' = [op |-> "save", commission_percent |-> commission_percent,
                       raised |-> saved.raised, result |-> commission_percent]
    /\ UNCHANGED <<salesVars, dbCustomer, dbPaymentTariff>>

\* ArchitectCommission.objects.create(commission_percent=...)
CreateCommission(commission_percent) ==
    /\ LET created == ArchitectCommissionCreate(dbArchitectCommission, commission_percent)
       IN  /\ dbArchitectCommission' = created.table
           /\ call' = [op |-> "create", commission_percent |-> commission_percent,
                       raised |-> created.raised, result |-> commission_percent]
    /\ UNCHANGED <<salesVars, dbCustomer, dbPaymentTariff>>

\* ArchitectCommission.get_commission()
GetCommission ==
    /\ LET got == get_commission(dbArchitectCommission)
       IN  /\ dbArchitectCommission' = got.table
           /\ call' = [op |-> "get_commission", commission_percent |-> got.result,
                       raised |-> got.raised, result |-> got.result]
    /\ UNCHANGED <<salesVars, dbCustomer, dbPaymentTariff>>

NextCore ==
    \/ \E payment_type \in PaymentTypes, installments \in Installments, fee_percent \in TariffFees :
          AdminAddTariff(payment_type, installments, fee_percent)
    \/ \E tariff \in [payment_type : PaymentTypes, installments : Installments,
                       fee_percent : TariffFees] : AdminDeleteTariff(tariff)
    \/ \E payment_type \in PaymentTypes, installments \in Installments :
          GetFee(payment_type, installments)
    \/ \E commission_percent \in CommissionInputs : SaveNewCommission(commission_percent)
    \/ \E commission_percent \in CommissionInputs : CreateCommission(commission_percent)
    \/ GetCommission

SpecCore == InitCore /\ [][NextCore]_vars

\* ------------------------------------------------------------- validate_cpf (core/validador.py 5-21)
\* A string is a sequence of characters; None, the value of an empty field, is
\* a sequence of its own that is no string.
NoneValue == <<"None">>
DigitChars == <<"0", "1", "2", "3", "4", "5", "6", "7", "8", "9">>
\* The pattern is a str pattern, so \d is every Unicode decimal digit, and
\* int() takes every one of them: the Arabic-Indic digits stand for the
\* decimal digits of the other scripts.
ArabicIndicDigits ==
    <<"U+0660", "U+0661", "U+0662", "U+0663", "U+0664",
      "U+0665", "U+0666", "U+0667", "U+0668", "U+0669">>
UnicodeDigits == DigitChars \o ArabicIndicDigits
\* validador.py 6: \D is every character that is no decimal digit
IsDigit(c) == \E k \in 1..Len(UnicodeDigits) : UnicodeDigits[k] = c
\* validador.py 16, 20: int(c) of a digit character
IntOf(c) == ((CHOOSE k \in 1..Len(UnicodeDigits) : UnicodeDigits[k] = c) - 1) % 10
\* validador.py 11: the length of a CPF
CpfLength == 11

\* validador.py 5-6: _only_digits, re.sub(r"\D", "", value or "")
only_digits(value) ==
    IF value = NoneValue THEN <<>> ELSE SelectSeq(value, IsDigit)

\* validador.py 15: sum(int(cpf[num]) * ((i + 1) - num) for num in range(i))
RECURSIVE WeightedTotal(_, _, _)
WeightedTotal(cpf, i, num) ==
    IF num = i THEN 0
    ELSE IntOf(cpf[num + 1]) * ((i + 1) - num) + WeightedTotal(cpf, i, num + 1)

\* validador.py 15-17: the check digit expected at index i (from 0)
CpfDigit(cpf, i) ==
    LET total == WeightedTotal(cpf, i, 0)
        digit == (total * 10) % 11
    IN  IF digit = 10 THEN 0 ELSE digit

\* validador.py 8-21: validate_cpf; "ok" is the return without an exception
validate_cpf(value) ==
    LET cpf == only_digits(value)
    IN  IF Len(cpf) # CpfLength \/ cpf = [k \in 1..CpfLength |-> cpf[1]]
        THEN "ValidationError"
        ELSE IF CpfDigit(cpf, 9) # IntOf(cpf[10]) THEN "ValidationError"
        ELSE IF CpfDigit(cpf, 10) # IntOf(cpf[11]) THEN "ValidationError"
        ELSE "ok"

\* the digit strings tried: nine digits (a fixed beginning and two free digits,
\* or nine equal digits), two free check digits, and then the last digit
\* dropped, nothing, or one digit more
CpfBodies ==
    {<<1, 1, 1, 4, 4, 4, 7, a, b>> : a \in 0..9, b \in 0..9}
        \cup {[k \in 1..9 |-> d] : d \in 0..9}
CpfDigitStrings ==
    LET full == {body \o <<c1, c2>> : body \in CpfBodies, c1 \in 0..9, c2 \in 0..9}
    IN  full \cup {SubSeq(ds, 1, 10) : ds \in full} \cup {ds \o <<0>> : ds \in full}

\* how the digits are written: bare, with the usual mask ddd.ddd.ddd-dd, with
\* blanks around, or bare with the first digit in Arabic-Indic script
CpfStyles == {"plain", "masked", "blanks", "first_arabic_indic"}

Chars(ds) == [k \in 1..Len(ds) |-> DigitChars[ds[k] + 1]]

Written(ds, style) ==
    IF style = "masked"
    THEN Chars(SubSeq(ds, 1, 3)) \o <<".">> \o Chars(SubSeq(ds, 4, 6)) \o <<".">>
            \o Chars(SubSeq(ds, 7, 9)) \o <<"-">> \o Chars(SubSeq(ds, 10, Len(ds)))
    ELSE IF style = "blanks" THEN <<" ">> \o Chars(ds) \o <<" ">>
    ELSE IF style = "first_arabic_indic"
    THEN <<ArabicIndicDigits[ds[1] + 1]>> \o Chars(SubSeq(ds, 2, Len(ds)))
    ELSE Chars(ds)

\* a value to validate: digits written in some style, the empty string or None
InitCpf ==
    /\ NoSales
    /\ dbPaymentTariff = {}
    /\ dbArchitectCommission = {}
    /\ dbCustomer = {}
    /\ \/ \E ds \in CpfDigitStrings, style \in CpfStyles :
            call = [op |-> "none", digits |-> ds, value |-> Written(ds, style), result |-> "none"]
       \/ \E value \in {NoneValue, <<>>, <<"a", "b">>} :
            call = [op |-> "none", digits |-> <<>>, value |-> value, result |-> "none"]

\* validate_cpf(value) is called
ValidateCpf ==
    /\ call.op = "none"
    /\ call' = [call EXCEPT !.op = "validate_cpf", !.result = validate_cpf(call.value)]
    /\ UNCHANGED <<salesVars, dbCustomer, dbPaymentTariff, dbArchitectCommission>>

NextCpf == ValidateCpf

SpecCpf == InitCpf /\ [][NextCpf]_vars

\* ------------------------------------------------------------- validate_cnpj (core/validador.py 24-39)
\* validador.py 27: the length of a CNPJ
CnpjLength == 14
\* validador.py 30-31
weights_1 == <<5, 4, 3, 2, 9, 8, 7, 6, 5, 4, 3, 2>>
weights_2 == <<6>> \o weights_1

\* validador.py 34: sum(int(cnpj[i]) * weights[i] for i in range(len(weights)))
RECURSIVE CnpjTotal(_, _, _)
CnpjTotal(cnpj, weights, i) ==
    IF i = Len(weights) THEN 0
    ELSE IntOf(cnpj[i + 1]) * weights[i + 1] + CnpjTotal(cnpj, weights, i + 1)

\* validador.py 34-36: the check digit the weights give
CnpjDigit(cnpj, weights) ==
    LET total == CnpjTotal(cnpj, weights, 0)
        digit == 11 - (total % 11)
    IN  IF digit >= 10 THEN 0 ELSE digit

\* validador.py 24-39: validate_cnpj; "ok" is the return without an exception
validate_cnpj(value) ==
    LET cnpj == only_digits(value)
    IN  IF Len(cnpj) # CnpjLength \/ cnpj = [k \in 1..CnpjLength |-> cnpj[1]]
        THEN "ValidationError"
        ELSE IF CnpjDigit(cnpj, weights_1) # IntOf(cnpj[13]) THEN "ValidationError"
        ELSE IF CnpjDigit(cnpj, weights_2) # IntOf(cnpj[14]) THEN "ValidationError"
        ELSE "ok"

\* the digit strings tried: twelve digits (a fixed beginning and two free
\* digits, or twelve equal digits), two free check digits, and then the last
\* digit dropped, nothing, or one digit more
CnpjBodies ==
    {<<1, 1, 2, 2, 2, 3, 3, 3, 0, 0, a, b>> : a \in 0..9, b \in 0..9}
        \cup {[k \in 1..12 |-> d] : d \in 0..9}
CnpjDigitStrings ==
    LET full == {body \o <<c1, c2>> : body \in CnpjBodies, c1 \in 0..9, c2 \in 0..9}
    IN  full \cup {SubSeq(ds, 1, 13) : ds \in full} \cup {ds \o <<0>> : ds \in full}

\* how the digits are written: bare, with the usual mask dd.ddd.ddd/dddd-dd, or
\* bare with the first digit in Arabic-Indic script
CnpjStyles == {"plain", "masked", "first_arabic_indic"}

WrittenCnpj(ds, style) ==
    IF style = "masked"
    THEN Chars(SubSeq(ds, 1, 2)) \o <<".">> \o Chars(SubSeq(ds, 3, 5)) \o <<".">>
            \o Chars(SubSeq(ds, 6, 8)) \o <<"/">> \o Chars(SubSeq(ds, 9, 12)) \o <<"-">>
            \o Chars(SubSeq(ds, 13, Len(ds)))
    ELSE IF style = "first_arabic_indic"
    THEN <<ArabicIndicDigits[ds[1] + 1]>> \o Chars(SubSeq(ds, 2, Len(ds)))
    ELSE Chars(ds)

\* a value to validate: digits written in some style, the empty string or None
InitCnpj ==
    /\ NoSales
    /\ dbPaymentTariff = {}
    /\ dbArchitectCommission = {}
    /\ dbCustomer = {}
    /\ \/ \E ds \in CnpjDigitStrings, style \in CnpjStyles :
            call = [op |-> "none", digits |-> ds, value |-> WrittenCnpj(ds, style), result |-> "none"]
       \/ \E value \in {NoneValue, <<>>, <<"a", "b">>} :
            call = [op |-> "none", digits |-> <<>>, value |-> value, result |-> "none"]

\* validate_cnpj(value) is called
ValidateCnpj ==
    /\ call.op = "none"
    /\ call' = [call EXCEPT !.op = "validate_cnpj", !.result = validate_cnpj(call.value)]
    /\ UNCHANGED <<salesVars, dbCustomer, dbPaymentTariff, dbArchitectCommission>>

NextCnpj == ValidateCnpj

SpecCnpj == InitCnpj /\ [][NextCnpj]_vars

\* ------------------------------------------------------------- Customer (core/models.py 6-45, core/views.py 39-65)
MaxCustomers == 3
CustomerIds == 1..MaxCustomers
\* an empty CharField
Blank == ""
\* the documents a request can carry: nothing, a CPF or a CNPJ, bare or masked
CpfInputs == {Blank, "11144477735", "111.444.777-35"}
CnpjInputs == {Blank, "11222333000181", "11.222.333/0001-81"}
\* views.py 44-52: the fields of the request body that the constraints look at
CustomerData == [cpf : CpfInputs, cnpj : CnpjInputs]

\* no constraint at all
NoCustomerConstraint(table, obj) == TRUE
\* a CHECK that asks for exactly one document
ExactlyOneDocument(table, obj) == (obj.cpf = Blank) # (obj.cnpj = Blank)

\* models.py 31-35: UniqueConstraint(fields=["cpf"], condition=~Q(cpf=""))
UniqCustomerCpf(table, obj) ==
    obj.cpf # Blank => \A row \in table : row.cpf # obj.cpf
\* models.py 36-40: UniqueConstraint(fields=["cnpj"], condition=~Q(cnpj=""))
UniqCustomerCnpj(table, obj) ==
    obj.cnpj # Blank => \A row \in table : row.cnpj # obj.cnpj
\* models.py 41-44: CheckConstraint(condition=~(Q(cpf="") & Q(cnpj="")))
CpfOrCnpjRequired(table, obj) == ~(obj.cpf = Blank /\ obj.cnpj = Blank)

\* views.py 46-52: Customer.objects.create(...): one INSERT, which the
\* constraints of the table let through or refuse with IntegrityError
CustomerCreate(table, data) ==
    LET obj == [id |-> NextId({row.id : row \in table}), cpf |-> data.cpf, cnpj |-> data.cnpj]
    IN  IF /\ UniqCustomerCpf(table, obj)
           /\ UniqCustomerCnpj(table, obj)
           /\ CpfOrCnpjRequired(table, obj)
        THEN [raised |-> "none", table |-> table \cup {obj}, id |-> obj.id]
        ELSE [raised |-> "IntegrityError", table |-> table, id |-> 0]

InitCustomer ==
    /\ NoSales
    /\ dbPaymentTariff = {}
    /\ dbArchitectCommission = {}
    /\ dbCustomer = {}
    /\ call = NoCall

\* views.py 39-65: create_customer answers success with the new id, or 400
\* with the exception's text
CreateCustomer(data) ==
    /\ LET created == CustomerCreate(dbCustomer, data)
       IN  /\ created.raised = "none" => created.id \in CustomerIds
           /\ dbCustomer' = created.table
           /\ call' = [op |-> "create_customer", data |-> data,
                       success |-> created.raised = "none", id |-> created.id,
                       before |-> dbCustomer]
    /\ UNCHANGED <<salesVars, dbPaymentTariff, dbArchitectCommission>>

NextCustomer == \E data \in CustomerData : CreateCustomer(data)

SpecCustomer == InitCustomer /\ [][NextCustomer]_vars

\* ------------------------------------------------------------- properties
OrdersOf(orders, q) == {o \in orders : o.quote = q}
OrderItemsOf(orders, orderItems, q) ==
    {oi \in orderItems : \E o \in OrdersOf(orders, q) : o.id = oi.order}
SupplierOrdersOf(q) == {o \in dbOrder : o.quote = q /\ ~o.is_total_conference}
TotalOrdersOf(q) == {o \in dbOrder : o.quote = q /\ o.is_total_conference}
ItemsOfQuote(q) == {it \in dbQuoteItem : it.quote = q}
OrderOf(oi) == CHOOSE o \in dbOrder : o.id = oi.order
Succeeded(r) == response[r].kind = "success"
\* the step in which request r makes the precondition checks
CheckStep(r) == pc[r] = "fetched" /\ pc'[r] # "fetched"
\* the step in which request r commits and reports success
CommitStep(r) == response[r].kind = "none" /\ response'[r].kind = "success"
\* r is inside the atomic block, past the precondition checks
PastChecks(r) == pc[r] \in {"supplier_orders", "total_order", "status", "commit"}
RejectedAs(resp, error) == resp.kind = "ValidationError" /\ resp.error = error

\* C1: a conversion that finds an Order of the quote at its existing-Orders check
\* is rejected as already converted, and once a quote has Orders no call, however
\* often repeated, adds or removes an Order or OrderItem.
C1_AlreadyConvertedIsRejected ==
    [][ /\ \A r \in Requests :
             (CheckStep(r) /\ OrdersExist(local[r].quote_id))
                => RejectedAs(response'[r], "AlreadyConverted")
        /\ \A q \in QuoteIds :
             OrdersExist(q) => /\ OrdersOf(dbOrder', q) = OrdersOf(dbOrder, q)
                               /\ OrderItemsOf(dbOrder', dbOrderItem', q)
                                    = OrderItemsOf(dbOrder, dbOrderItem, q) ]_vars

\* C1 happens: one call converted the quote and a later call was rejected
C1_Witness ==
    \E r1, r2 \in Requests :
        /\ Succeeded(r1)
        /\ RejectedAs(response[r2], "AlreadyConverted")
        /\ response[r2].quote_id = response[r1].quote_id
        /\ Cardinality(OrdersOf(dbOrder, response[r1].quote_id)) >= 2

\* C2: two requests converting the same quote are never both past the
\* existing-Orders check: the quote row stays locked until the first commits,
\* and the second is then rejected as already converted.
C2_ConversionsAreSerialized ==
    \A r1, r2 \in Requests :
        (r1 # r2 /\ local[r1].quote_id = local[r2].quote_id)
            => ~(PastChecks(r1) /\ PastChecks(r2))

\* C3: after a successful conversion the quote has one per-supplier Order per
\* distinct supplier of its items and exactly one total-conference Order, which
\* has no supplier; every Order is OPEN.
C3_OneOrderPerSupplierPlusTotal ==
    \A r \in Requests : Succeeded(r) =>
        LET q == response[r].quote_id
        IN  /\ Cardinality(SupplierOrdersOf(q))
                 = Cardinality({it.supplier : it \in ItemsOfQuote(q)})
            /\ Cardinality(TotalOrdersOf(q)) = 1
            /\ \A o \in TotalOrdersOf(q) : o.supplier = NoSupplier
            /\ \A o \in OrdersOf(dbOrder, q) : o.status = "OPEN"

\* C3 happens: a converted quote with items of two suppliers, two of them of
\* the same supplier
C3_Witness ==
    \E r \in Requests :
        /\ Succeeded(r)
        /\ Cardinality(SupplierOrdersOf(response[r].quote_id)) = 2
        /\ Cardinality(ItemsOfQuote(response[r].quote_id)) = 3

\* C4: after a successful conversion every QuoteItem has exactly one OrderItem
\* in the per-supplier Order of its supplier, none in another per-supplier
\* Order, and exactly one in the total-conference Order; the per-supplier
\* OrderItems, the total-conference OrderItems and the QuoteItems are equally many.
C4_EveryItemOncePerKind ==
    \A r \in Requests : Succeeded(r) =>
        LET q == response[r].quote_id
            inSupplierOrders == {oi \in dbOrderItem : OrderOf(oi) \in SupplierOrdersOf(q)}
            inTotalOrder == {oi \in dbOrderItem : OrderOf(oi) \in TotalOrdersOf(q)}
        IN  /\ \A it \in ItemsOfQuote(q) :
                 /\ Cardinality({oi \in inSupplierOrders : oi.quote_item = it.id}) = 1
                 /\ \A oi \in inSupplierOrders :
                        oi.quote_item = it.id => OrderOf(oi).supplier = it.supplier
                 /\ Cardinality({oi \in inTotalOrder : oi.quote_item = it.id}) = 1
            /\ Cardinality(inSupplierOrders) = Cardinality(inTotalOrder)
            /\ Cardinality(inTotalOrder) = Cardinality(ItemsOfQuote(q))

\* C4 happens: a converted quote with three items, two of one supplier and one
\* of another
C4_Witness ==
    \E r \in Requests :
        /\ Succeeded(r)
        /\ Cardinality(ItemsOfQuote(response[r].quote_id)) = 3
        /\ \E o1, o2 \in SupplierOrdersOf(response[r].quote_id) :
              /\ Cardinality({oi \in dbOrderItem : oi.order = o1.id}) = 2
              /\ Cardinality({oi \in dbOrderItem : oi.order = o2.id}) = 1

\* C5: the tables change only in the step in which a conversion commits and
\* reports success; a conversion ended by an exception, at whatever statement,
\* leaves no Order, no OrderItem, the quote's status and every QuoteItemImage
\* row as they were.
C5_FailureChangesNoRow ==
    [][ db' # db => \E r \in Requests : CommitStep(r) ]_vars

\* C5 happens: a conversion failed after its last statement (the file of a
\* staged image is already deleted) and the image row is still there
C5_Witness ==
    \E r \in Requests :
        /\ response[r].kind = "DatabaseError"
        /\ \E img \in ImagesOfQuote(response[r].quote_id) : img.image \notin storage
        /\ ~OrdersExist(response[r].quote_id)

\* C6: a conversion of a quote without Orders, not canceled, with items of
\* which at least one has no supplier is rejected with the missing-supplier
\* error and changes no row, whatever the suppliers of the other items.
C6_MissingSupplierIsRejected ==
    [][ \A r \in Requests :
          ( /\ CheckStep(r)
            /\ ~OrdersExist(local[r].quote_id)
            /\ local[r].quote.status # "CANCELED"
            /\ \E k \in 1..Len(local[r].items) : local[r].items[k].supplier = NoSupplier )
          => /\ RejectedAs(response'[r], "MissingSupplier")
             /\ db' = db ]_vars

\* C6 happens: a quote whose first item has a supplier and a later one has none
\* was rejected
C6_Witness ==
    \E r \in Requests :
        /\ RejectedAs(response[r], "MissingSupplier")
        /\ \E it \in ItemsOfQuote(response[r].quote_id) : it.id = 1 /\ it.supplier # NoSupplier
        /\ ~OrdersExist(response[r].quote_id)

\* C7: for a quote without Orders the checks are made in the order CANCELED,
\* no items, item without supplier: a canceled quote is rejected as canceled
\* whatever its items, a quote that is not canceled and has no items as empty;
\* the rejection changes no row.
C7_ChecksInOrder ==
    [][ \A r \in Requests :
          (CheckStep(r) /\ ~OrdersExist(local[r].quote_id))
          => /\ local[r].quote.status = "CANCELED"
                  => RejectedAs(response'[r], "QuoteCanceled")
             /\ (local[r].quote.status # "CANCELED" /\ local[r].items = <<>>)
                  => RejectedAs(response'[r], "EmptyQuote")
             /\ response'[r].kind = "ValidationError" => db' = db ]_vars

\* C7 happens: a canceled quote with an item without supplier was rejected as
\* canceled
C7_Witness ==
    \E r \in Requests :
        /\ RejectedAs(response[r], "QuoteCanceled")
        /\ \E it \in ItemsOfQuote(response[r].quote_id) : it.supplier = NoSupplier

\* C8: the commit of a successful conversion sets the quote's status to
\* CONVERTED and changes no other column of the quote, no other quote and no
\* QuoteItem.
C8_OnlyStatusIsWritten ==
    [][ \A r \in Requests : CommitStep(r) =>
          LET q == local[r].quote_id
          IN  /\ dbQuote'[q].status = "CONVERTED"
              /\ \A f \in DOMAIN dbQuote[q] \ {"status"} : dbQuote'[q][f] = dbQuote[q][f]
              /\ \A q2 \in QuoteIds \ {q} : dbQuote'[q2] = dbQuote[q2]
              /\ dbQuoteItem' = dbQuoteItem ]_vars

\* C8 happens: an APPROVED quote was converted
C8_Witness ==
    \E r \in Requests :
        /\ Succeeded(r)
        /\ dbQuote[response[r].quote_id].status = "CONVERTED"
        /\ dbQuoteItem # {}

\* C9: no conversion ends with the error of a file deletion, and after a
\* successful conversion the quote has Orders, status CONVERTED and no
\* QuoteItemImage row.
C9_ImagesRemovedFileErrorsSwallowed ==
    \A r \in Requests :
        /\ response[r].kind # "OSError"
        /\ Succeeded(r) =>
             /\ ImagesOfQuote(response[r].quote_id) = {}
             /\ OrdersExist(response[r].quote_id)
             /\ dbQuote[response[r].quote_id].status = "CONVERTED"

\* C9 happens: a conversion succeeded although the file of a staged image could
\* not be deleted: the file is still stored, its row is gone
C9_Witness ==
    \E r \in Requests :
        /\ Succeeded(r)
        /\ storage # {}
        /\ dbQuoteItemImage = {}

\* C10: the count in the success message is the number of Orders the conversion
\* created, the per-supplier Orders and the total-conference Order.
C10_ReportedCountIsOrdersCreated ==
    \A r \in Requests :
        Succeeded(r) => response[r].count = Cardinality({o \in dbOrder : o.id[1] = r})

\* C11: in every reachable state each quote has at most one total-conference
\* Order, every total-conference Order has no supplier and every other Order
\* has one.
C11_OrderShapes ==
    /\ \A q \in QuoteIds : Cardinality(TotalOrdersOf(q)) <= 1
    /\ \A o \in dbOrder : o.is_total_conference => o.supplier = NoSupplier
    /\ \A o \in dbOrder : ~o.is_total_conference => o.supplier # NoSupplier

\* C11 happens: a quote has its per-supplier and total-conference Orders, and a
\* second conversion of it was refused by the unique constraint
C11_Witness ==
    \E r \in Requests :
        /\ response[r].kind = "IntegrityError"
        /\ Cardinality(TotalOrdersOf(response[r].quote_id)) = 1
        /\ SupplierOrdersOf(response[r].quote_id) # {}

\* C12: once a quote's status is CONVERTED or CANCELED no step of quote_edit or
\* quote_convert_to_orders, however the requests interleave, changes it.
C12_ClosedStatusIsFinal ==
    [][ \A q \in DOMAIN dbQuote :
          dbQuote[q].status \in {CONVERTED, CANCELED}
              => dbQuote'[q].status = dbQuote[q].status ]_vars

\* the POST names nobody who could authorize: no username, or no staff user
NoAuthorizerSupplied(post) == ~IsStaff(post.discount_authorized_by)

\* the step refuses the request with an error message and writes no row
RefusedWithoutWrite(r) == response'[r].kind = "FormError" /\ db' = db

\* the step saves quote q with the discount and without an authorizer
SavedWithDiscount(r, q, discount_percent) ==
    /\ response'[r].kind = "saved"
    /\ q \in DOMAIN dbQuote'
    /\ dbQuote'[q].discount_percent = discount_percent

\* C16: a valid POST to quote_create or quote_edit with a discount above 15 %,
\* no authorizing staff user supplied and (quote_edit) none recorded on the
\* quote ends with an error and writes no row, neither the quote nor an item;
\* a POST with a discount of 15 % or less is saved, authorizer or not.
C16_UnauthorizedDiscountIsRefused ==
    [][ \A r \in Requests :
          pc'[r] # pc[r] /\ pc[r] \in {"edit_fetched", "create_numbered"} =>
          \A post \in PostInputs \ {InvalidPost} :
          /\ \/ IF post.discount_percent > DiscountLimit
                THEN (NoAuthorizerSupplied(post)
                        /\ local[r].quote.discount_authorized_by = NoUser)
                     => RefusedWithoutWrite(r)
                ELSE SavedWithDiscount(r, local[r].quote_id, post.discount_percent)
             \/ ~EditSave(r, post)
          /\ \/ IF post.discount_percent > DiscountLimit
                THEN NoAuthorizerSupplied(post) => RefusedWithoutWrite(r)
                ELSE response'[r].kind = "IntegrityError"
                     \/ SavedWithDiscount(r, NextId(DOMAIN dbQuote), post.discount_percent)
             \/ ~CreateSave(r, post) ]_vars

\* C16 happens: one request was refused for want of an authorization and
\* another created a quote with a discount of exactly 15 % and one item
C16_Witness ==
    \E r1, r2 \in Requests :
        /\ response[r1].kind = "FormError"
        /\ response[r1].error = "AuthorizationRequired"
        /\ response[r2].kind = "saved"
        /\ response[r2].quote_id \notin QuoteIds
        /\ dbQuote[response[r2].quote_id].discount_percent = DiscountLimit
        /\ dbQuote[response[r2].quote_id].discount_authorized_by = NoUser
        /\ \E it \in dbQuoteItem : it.quote = response[r2].quote_id

\* C17: no conversion succeeds for a quote whose discount is above 15 % and has
\* no authorizer recorded: such a quote gets no Orders.
C17_UnauthorizedDiscountBlocksConversion ==
    \A r \in Requests :
        Succeeded(r) =>
            ~ /\ dbQuote[response[r].quote_id].discount_percent > DiscountLimit
              /\ dbQuote[response[r].quote_id].discount_authorized_by = NoUser
              /\ OrdersExist(response[r].quote_id)

\* the quote's numbers as integers: cents and tenths of a percent
RECURSIVE SumOfCents(_)
SumOfCents(items) ==
    IF items = <<>> THEN 0
    ELSE CoefAt(Head(items).unit_value, -2) * Head(items).quantity + SumOfCents(Tail(items))
FreightCents(quote) == CoefAt(quote.freight_value, -2)
DiscountTenths(quote) == CoefAt(quote.discount_percent, -1)
FeeTenths(quote) == CoefAt(quote.payment_fee_percent, -1)
\* (subtotal + freight) x (1 - discount/100), in units of 10^-5
DiscountedTotal(quote, items) ==
    (SumOfCents(items) + FreightCents(quote)) * (1000 - DiscountTenths(quote))

\* C13: calculate_subtotal returns the sum of unit_value x quantity over the
\* quote's items, 0 without items, whatever the freight, discount and fee.
C13_SubtotalIsSumOfLines ==
    call.op = "calculate_subtotal" =>
        /\ DecEq(call.result, Dec(SumOfCents(call.items), -2))
        /\ call.items = <<>> => call.result.n = 0

\* C13 happens: the subtotal of two items (2 x 2.00 and 2 x 0.25) of a quote
\* with freight, discount and fee is 4.50
C13_Witness ==
    /\ call.op = "calculate_subtotal"
    /\ Len(call.items) = 2
    /\ FreightCents(call.quote) # 0 /\ DiscountTenths(call.quote) # 0 /\ FeeTenths(call.quote) # 0
    /\ DecEq(call.result, Dec(450, -2))

\* C14: calculate_total_with_freight_and_discount returns
\* (subtotal + freight_value) x (1 - discount_percent/100): the discount is taken
\* from the freight-inclusive amount and the payment fee is not part of it.
C14_DiscountOnFreightInclusiveAmount ==
    call.op = "calculate_total_with_freight_and_discount" =>
        DecEq(call.result, Dec(DiscountedTotal(call.quote, call.items), -5))

\* C14 happens: subtotal 4.00, freight 1.00, discount 10 %, a fee set: 4.50
C14_Witness ==
    /\ call.op = "calculate_total_with_freight_and_discount"
    /\ SumOfCents(call.items) = 400
    /\ FreightCents(call.quote) = 100
    /\ DiscountTenths(call.quote) = 100
    /\ FeeTenths(call.quote) # 0
    /\ DecEq(call.result, Dec(450, -2))

\* C15: calculate_payment_fee_value returns the total with freight and discount
\* times payment_fee_percent/100, and calculate_final_total that total plus the
\* fee value, both exactly: nothing is rounded on the way.
C15_FeeAndFinalTotalAreExact ==
    /\ call.op = "calculate_payment_fee_value" =>
         DecEq(call.result, Dec(DiscountedTotal(call.quote, call.items) * FeeTenths(call.quote), -8))
    /\ call.op = "calculate_final_total" =>
         DecEq(call.result,
               Dec(DiscountedTotal(call.quote, call.items) * (1000 + FeeTenths(call.quote)), -8))

\* C15 happens: one item of 0.25, freight 1.00, discount 15.1 %, fee 2.5 %: the
\* total 1.06125 is no whole number of cents and the final total is 1.08778125
C15_Witness ==
    /\ call.op = "calculate_final_total"
    /\ SumOfCents(call.items) = 25
    /\ FreightCents(call.quote) = 100
    /\ DiscountTenths(call.quote) = 151
    /\ FeeTenths(call.quote) = 25
    /\ DecEq(call.result, Dec(108778125, -8))

\* C18: get_fee returns the fee_percent of the one tariff row of the pair when
\* there is one and 0 when there is none; it raises nothing and leaves the
\* PaymentTariff table as it was.
C18_GetFeeOrZero ==
    [][ \A payment_type \in PaymentTypes, installments \in Installments :
          GetFee(payment_type, installments) =>
            LET found == TariffsOf(dbPaymentTariff, payment_type, installments)
            IN  /\ Cardinality(found) <= 1
                /\ call'.raised = "none"
                /\ \A t \in found : call'.result = t.fee_percent
                /\ found = {} => call'.result = 0
                /\ dbPaymentTariff' = dbPaymentTariff ]_vars

\* C18 happens: the fee of a pair without a row was asked for while the same
\* payment type has a tariff with a fee for another number of installments
C18_Witness ==
    /\ call.op = "get_fee"
    /\ call.result = 0
    /\ call.raised = "none"
    /\ TariffsOf(dbPaymentTariff, call.payment_type, call.installments) = {}
    /\ \E t \in dbPaymentTariff : t.payment_type = call.payment_type /\ t.fee_percent # 0

\* C19: the ArchitectCommission table never has more than one row, whose pk is
\* 1; a save on a new instance and an objects.create both succeed and leave that
\* one row with the percentage given, also when the row exists already; and
\* get_commission on the empty table creates the row with 10.0 and returns 10.0.
C19_CommissionIsSingleton ==
    [][ /\ Cardinality(dbArchitectCommission') <= 1
        /\ \A row \in dbArchitectCommission' : row.pk = SingletonPk
        /\ \A commission_percent \in CommissionInputs :
             (SaveNewCommission(commission_percent) \/ CreateCommission(commission_percent))
                => /\ call'.raised = "none"
                   /\ dbArchitectCommission'
                        = {[pk |-> SingletonPk, commission_percent |-> commission_percent]}
        /\ (GetCommission /\ dbArchitectCommission = {})
                => /\ call'.result = DefaultCommission
                   /\ dbArchitectCommission'
                        = {[pk |-> SingletonPk, commission_percent |-> DefaultCommission]} ]_vars

\* the check digit of the first n digits: the sum of the digits weighted
\* n+1, n, ..., 2, modulo 11; a remainder below 2 gives 0, another 11 - remainder
RECURSIVE SumWeighted(_, _, _)
SumWeighted(ds, n, k) ==
    IF k > n THEN 0 ELSE ds[k] * (n + 2 - k) + SumWeighted(ds, n, k + 1)
Mod11Digit(ds, n) ==
    LET remainder == SumWeighted(ds, n, 1) % 11
    IN  IF remainder < 2 THEN 0 ELSE 11 - remainder
\* the digit string is a CPF
IsCpf(ds) ==
    /\ Len(ds) = 11
    /\ \E k \in 2..11 : ds[k] # ds[1]
    /\ ds[10] = Mod11Digit(ds, 9)
    /\ ds[11] = Mod11Digit(ds, 10)

\* C20: validate_cpf accepts a value exactly when its digits, mask characters
\* set aside, are eleven, not all equal, and the tenth and eleventh are the
\* modulo-11 check digits; it raises ValidationError for every other value, so
\* the verdict is the same however the digits are written.
C20_CpfAcceptedIffCheckDigitsMatch ==
    call.op = "validate_cpf" =>
        /\ call.result \in {"ok", "ValidationError"}
        /\ call.result = "ok" <=> IsCpf(call.digits)


\* the weight of position k among the first n digits: 2, 3, ..., 9 from the
\* right, and 2 again after 9
CycleWeight(n, k) == ((n - k) % 8) + 2
RECURSIVE CycleSum(_, _, _)
CycleSum(ds, n, k) ==
    IF k > n THEN 0 ELSE ds[k] * CycleWeight(n, k) + CycleSum(ds, n, k + 1)
CnpjCheckDigit(ds, n) ==
    LET digit == 11 - (CycleSum(ds, n, 1) % 11)
    IN  IF digit >= 10 THEN 0 ELSE digit
\* the digit string is a CNPJ
IsCnpj(ds) ==
    /\ Len(ds) = 14
    /\ \E k \in 2..14 : ds[k] # ds[1]
    /\ ds[13] = CnpjCheckDigit(ds, 12)
    /\ ds[14] = CnpjCheckDigit(ds, 13)

\* C21: validate_cnpj accepts a value exactly when its digits, mask characters
\* set aside, are fourteen, not all equal, and the thirteenth and fourteenth
\* are the check digits 11 - (weighted sum mod 11), 10 and 11 giving 0; it
\* raises ValidationError for every other value.
C21_CnpjAcceptedIffCheckDigitsMatch ==
    call.op = "validate_cnpj" =>
        /\ call.result \in {"ok", "ValidationError"}
        /\ call.result = "ok" <=> IsCnpj(call.digits)


\* C22: every Customer row has exactly one of cpf and cnpj non-empty; a
\* create_customer with both empty or both non-empty fails and stores no row.
C22_ExactlyOneDocument ==
    /\ \A row \in dbCustomer : (row.cpf = Blank) # (row.cnpj = Blank)
    /\ call.op = "create_customer"
            /\ (call.data.cpf = Blank) = (call.data.cnpj = Blank)
        => ~call.success /\ dbCustomer = call.before

\* C22 amended: every Customer row has at least one of cpf and cnpj non-empty;
\* a create_customer with both empty fails and stores no row, and one with
\* both non-empty and not yet used is stored.
C22_AtLeastOneDocument ==
    /\ \A row \in dbCustomer : row.cpf # Blank \/ row.cnpj # Blank
    /\ call.op = "create_customer" =>
        /\ (call.data.cpf = Blank /\ call.data.cnpj = Blank)
                => ~call.success /\ dbCustomer = call.before
        /\ ( /\ call.data.cpf # Blank
             /\ call.data.cnpj # Blank
             /\ \A row \in call.before : row.cpf # call.data.cpf /\ row.cnpj # call.data.cnpj )
                => /\ call.success
                   /\ \E row \in dbCustomer \ call.before :
                        row.cpf = call.data.cpf /\ row.cnpj = call.data.cnpj

\* C22 happens: a request with neither document was refused after a customer
\* with both documents had been stored
C22_Witness ==
    /\ call.op = "create_customer"
    /\ call.data.cpf = Blank
    /\ call.data.cnpj = Blank
    /\ ~call.success
    /\ \E row \in dbCustomer : row.cpf # Blank /\ row.cnpj # Blank

\* C23: no two Customer rows share a non-empty cpf or a non-empty cnpj, rows
\* with an empty cpf (or an empty cnpj) may be many, and a create_customer with
\* a document already in use fails and leaves the table as it was.
C23_DocumentsAreUnique ==
    /\ \A a, b \in dbCustomer :
            a.id # b.id =>
                /\ a.cpf # Blank => a.cpf # b.cpf
                /\ a.cnpj # Blank => a.cnpj # b.cnpj
    /\ call.op = "create_customer" =>
        /\ (\E row \in call.before :
                \/ call.data.cpf # Blank /\ row.cpf = call.data.cpf
                \/ call.data.cnpj # Blank /\ row.cnpj = call.data.cnpj)
                => ~call.success /\ dbCustomer = call.before
        /\ ( /\ (call.data.cpf = Blank) # (call.data.cnpj = Blank)
             /\ \A row \in call.before :
                    /\ call.data.cpf # Blank => row.cpf # call.data.cpf
                    /\ call.data.cnpj # Blank => row.cnpj # call.data.cnpj )
                => call.success /\ Cardinality(dbCustomer) = Cardinality(call.before) + 1

\* C23 happens: a second request with a CPF in use was refused while two
\* customers without a CPF are stored
C23_Witness ==
    /\ call.op = "create_customer"
    /\ ~call.success
    /\ call.data.cpf # Blank
    /\ \E row \in call.before : row.cpf = call.data.cpf
    /\ \E a, b \in dbCustomer : a.id # b.id /\ a.cpf = Blank /\ b.cpf = Blank


\* C25: the total printed by quote_pdf_client is the amount of
\* calculate_total_with_freight_and_discount for the same quote, as printed with
\* two decimals, whatever the items, the freight and the discount.
C25_PdfTotalIsModelTotal ==
    call.op = "quote_pdf_client" =>
        DecEq(call.result,
              DecToCents(calculate_total_with_freight_and_discount(call.quote, call.items)))


\* C26: a valid POST to quote_edit whose discount is above 15 % and differs from
\* the discount stored for the quote, without an authorizing staff user, is
\* refused with an error and writes no row, also when the quote has an
\* authorizer recorded.
C26_ChangedDiscountNeedsNewAuthorization ==
    [][ \A r \in Requests :
          pc'[r] # pc[r] /\ pc[r] = "edit_fetched" =>
          \A post \in PostInputs \ {InvalidPost} :
            \/ ~ /\ post.discount_percent > DiscountLimit
                 /\ post.discount_percent # dbQuote[local[r].quote_id].discount_percent
                 /\ NoAuthorizerSupplied(post)
            \/ RefusedWithoutWrite(r)
            \/ ~EditSave(r, post) ]_vars

\* C27: a valid POST to quote_create or quote_edit with a discount above 15 %
\* and the username of a staff user as authorizer is saved, and the quote's
\* row has that user as discount_authorized_by.
C27_AuthorizedDiscountIsSaved ==
    [][ \A r \in Requests :
          pc'[r] # pc[r] /\ pc[r] \in {"edit_fetched", "create_numbered"} =>
          \A post \in PostInputs \ {InvalidPost} :
            \/ ~(post.discount_percent > DiscountLimit /\ IsStaff(post.discount_authorized_by))
            \/ /\ response'[r].kind = "saved"
               /\ dbQuote'[response'[r].quote_id].discount_percent = post.discount_percent
               /\ dbQuote'[response'[r].quote_id].discount_authorized_by
                    = post.discount_authorized_by
            \/ ~(EditSave(r, post) \/ CreateSave(r, post)) ]_vars


\* C28: a quote has status CONVERTED exactly when it has at least one Order.
C28_ConvertedIffHasOrders ==
    \A q \in DOMAIN dbQuote : (dbQuote[q].status = CONVERTED) <=> OrdersExist(q)


\* C29: no quote_create fails on the quote number and no two quotes have the
\* same number: the number of every new quote is one no quote has.
C29_NewQuoteNumberIsFree ==
    /\ \A r \in Requests :
            ~(response[r].kind = "IntegrityError" /\ response[r].quote_id \notin QuoteIds)
    /\ \A q1, q2 \in DOMAIN dbQuote : q1 # q2 => dbQuote[q1].number # dbQuote[q2].number


\* the step in which request r creates OrderItems
CreatesOrderItems(r) ==
    pc[r] \in {"supplier_orders", "total_order"} /\ pc'[r] \in {"total_order", "status"}
\* the step in which quote_edit of request r ends
EditEnds(r) == pc[r] = "edit_fetched" /\ pc'[r] # pc[r]

\* C24: every OrderItem the conversion creates has the values of the QuoteItem
\* it was made from (as the conversion read it) and refers to it; a quote_edit
\* leaves every Order and every OrderItem's copied values as they are, and
\* changes an OrderItem's reference only by clearing it when its QuoteItem is
\* deleted.
C24_OrderItemIsSnapshot ==
    [][ \A r \in Requests :
          /\ CreatesOrderItems(r) =>
                \A oi \in tx'[r].orderItems \ tx[r].orderItems :
                    \E k \in 1..Len(local[r].items) :
                        /\ local[r].items[k].id = oi.quote_item
                        /\ local[r].items[k].value = oi.value
          /\ EditEnds(r) =>
                /\ dbOrder' = dbOrder
                /\ Cardinality(dbOrderItem') = Cardinality(dbOrderItem)
                /\ \A oi \in dbOrderItem :
                     \E kept \in dbOrderItem' :
                        /\ kept.order = oi.order
                        /\ kept.pos = oi.pos
                        /\ kept.value = oi.value
                        /\ kept.quote_item =
                             IF \E it \in dbQuoteItem' : it.id = oi.quote_item
                             THEN oi.quote_item ELSE NoItem ]_vars

\* C24 happens: after a conversion of two items an edit changed the first and
\* deleted the second; the total Order's items keep the first values, one
\* refers to the changed QuoteItem and the other to none
C24_Witness ==
    \E r1, r2 \in Requests :
        /\ response[r1].kind = "success"
        /\ response[r2].kind = "saved"
        /\ \E it \in dbQuoteItem : it.id = 1 /\ it.value = EditedValue
        /\ \A it \in dbQuoteItem : it.id # 2
        /\ \E oi \in dbOrderItem :
             oi.order = <<r1, 0>> /\ oi.pos = 1 /\ oi.quote_item = 1 /\ oi.value = FirstValue
        /\ \E oi \in dbOrderItem :
             oi.order = <<r1, 0>> /\ oi.pos = 2 /\ oi.quote_item = NoItem /\ oi.value = FirstValue
        /\ \E o \in dbOrder : o.id = <<r1, 0>>

\* C30: when a conversion commits, its total-conference Order has exactly one
\* OrderItem for every QuoteItem the quote has at that moment, with the item's
\* values, whatever quote_edit did to the items meanwhile.
C30_TotalOrderMirrorsItemsAtCommit ==
    [][ \A r \in Requests :
          (pc[r] = "commit" /\ response'[r].kind = "success") =>
            LET items == {it \in dbQuoteItem : it.quote = local[r].quote_id}
                total == {oi \in dbOrderItem' : oi.order = <<r, 0>>}
            IN  /\ Cardinality(total) = Cardinality(items)
                /\ \A it \in items :
                     \E oi \in total : oi.quote_item = it.id /\ oi.value = it.value ]_vars

====
